---- MODULE Spec2Model ----
(***************************************************************************)
(* Model of src/src/lib.rs: the ring Z/QZ as `Modular<const Q: u32>(u32)`  *)
(* with its constructors and ring operations.                              *)
(*                                                                         *)
(* The narrow machine type (u32 in the source) is modelled with U32Bits    *)
(* bits and the wide type (u64) with twice as many, so that every          *)
(* threshold of the source keeps its shape: checked_add(Q, Q) is None      *)
(* exactly when 2Q exceeds the narrow maximum, checked_mul(Q, Q) is None   *)
(* exactly when Q*Q exceeds it, and the wide type holds every sum and      *)
(* product of two narrow values.                                           *)
(*                                                                         *)
(* An integer overflow of a narrow `+`, `-` or `*` panics in a build with  *)
(* overflow checks (debug) and wraps in a build without (release); the     *)
(* build is chosen in Init.  `%` by zero panics in every build.            *)
(***************************************************************************)
EXTENDS Integers, Sequences, FiniteSets, TLC

\* Width in bits of the narrow type; the wide type has twice as many.
U32Bits == 3

U32_MAX == 2^U32Bits - 1
U64_MAX == 2^(2 * U32Bits) - 1

U32 == 0..U32_MAX

\* The program's variables of type Modular<Q>: Regs in the ring-law program,
\* the first two of them in the others.
Regs == {"a", "b", "c"}
Pair == {"a", "b"}

VARIABLES
    Q,                \* the const generic modulus of Modular<Q>
    overflow_checks,  \* TRUE: overflow panics (debug); FALSE: it wraps (release)
    regs,             \* Regs -> Modular value, or Unbound before the first `let`
    last,             \* the last operation: its name, destination and path
    panicked,         \* the thread has panicked
    overflowed,       \* some integer computation left the range of its type
    raw               \* the raw integers of the law harness (<<>> otherwise)

vars == <<Q, overflow_checks, regs, last, panicked, overflowed, raw>>

---------------------------------------------------------------------------
\* Values

\* Option<u32>
None == <<>>
Some(v) == <<v>>

\* struct Modular<const Q: u32>(u32): a one-field tuple struct, field .0 is m[1]
Modular(v) == <<v>>
Unbound == <<>>

\* The outcome of evaluating an expression: its value, whether a computation
\* left the range of its type on the way, whether it panicked, and whether
\* the widened (u64) path of checked_opp was taken.
Ok(v) == [val |-> v, ovf |-> FALSE, panic |-> FALSE, wide |-> FALSE]
Panic(o) == [val |-> Unbound, ovf |-> o, panic |-> TRUE, wide |-> FALSE]

\* A primitive integer operation whose true result is t, in a type with
\* maximum max: in range it is t; out of range it panics under overflow
\* checks and wraps modulo max + 1 otherwise.
prim(t, max) ==
    IF t >= 0 /\ t <= max THEN Ok(t)
    ELSE IF overflow_checks THEN Panic(TRUE)
    ELSE [val |-> ((t % (max + 1)) + (max + 1)) % (max + 1),
          ovf |-> TRUE, panic |-> FALSE, wide |-> FALSE]

u32_add(x, y) == prim(x + y, U32_MAX)
u32_sub(x, y) == prim(x - y, U32_MAX)
u32_mul(x, y) == prim(x * y, U32_MAX)
u64_add(x, y) == prim(x + y, U64_MAX)
u64_mul(x, y) == prim(x * y, U64_MAX)

\* u32::checked_add / u32::checked_mul
checked_add(x, y) == IF x + y > U32_MAX THEN None ELSE Some(x + y)
checked_mul(x, y) == IF x * y > U32_MAX THEN None ELSE Some(x * y)

\* `as u32`: truncation to the narrow width
as_u32(t) == t % (U32_MAX + 1)

---------------------------------------------------------------------------
\* impl From<[u32; 1]> for Modular<Q>:  Modular(x[0] % Q)
from(x) == IF Q = 0 THEN Panic(FALSE) ELSE Ok(Modular(x[1] % Q))

\* Modular::from([e]) for an integer expression e with outcome r: a panic in e
\* ends the evaluation, an overflow in e stays recorded
from_of(r) ==
    IF r.panic THEN r
    ELSE LET m == from(<<r.val>>) IN [m EXCEPT !.ovf = r.ovf]

\* (e % modulus) as u32, for a wide expression e with outcome r
rem_as_u32(r, modulus) ==
    IF r.panic THEN r ELSE [r EXCEPT !.val = as_u32(r.val % modulus)]

\* add with the widening test left out: the native path for every modulus
add_native(self, other) == from_of(u32_add(self[1], other[1]))

\* add by u32::wrapping_add in place of the widened path
add_wrapping(self, other) ==
    from_of(Ok(as_u32(self[1] + other[1])))

\* checked_opp!(add, Add, checked_add)
add(self, other) ==
    IF checked_add(Q, Q) = None
    THEN LET x == self[1]
             y == other[1]
             modulus == Q
             m == from_of(rem_as_u32(u64_add(x, y), modulus))
         IN  [m EXCEPT !.wide = TRUE]
    ELSE from_of(u32_add(self[1], other[1]))

\* mul with the widening test left out: the native path for every modulus
mul_native(self, other) == from_of(u32_mul(self[1], other[1]))

\* mul with the width test of add: checked_opp!(mul, Mul, checked_add)
mul_add_threshold(self, other) ==
    IF checked_add(Q, Q) = None
    THEN LET x == self[1]
             y == other[1]
             modulus == Q
             m == from_of(rem_as_u32(u64_mul(x, y), modulus))
         IN  [m EXCEPT !.wide = TRUE]
    ELSE from_of(u32_mul(self[1], other[1]))

\* checked_opp!(mul, Mul, checked_mul)
mul(self, other) ==
    IF checked_mul(Q, Q) = None
    THEN LET x == self[1]
             y == other[1]
             modulus == Q
             m == from_of(rem_as_u32(u64_mul(x, y), modulus))
         IN  [m EXCEPT !.wide = TRUE]
    ELSE from_of(u32_mul(self[1], other[1]))

\* impl Neg:  Modular::from([Q - self.0])
neg(self) == from_of(u32_sub(Q, self[1]))

\* impl Sub:  Modular::from([self.0 + other.neg().0])
sub(self, other) ==
    LET n == neg(other)
    IN  IF n.panic THEN n
        ELSE LET s == u32_add(self[1], n.val[1])
             IN  from_of([s EXCEPT !.ovf = n.ovf \/ s.ovf])

\* impl Zero
zero == Modular(0)
is_zero(self) == self[1] = 0

\* impl One
one == Modular(1)

\* impl TwoSidedInverse<Additive>:  Self::zero() - *self
two_sided_inverse(self) == sub(zero, self)

---------------------------------------------------------------------------
\* The program: statements over the variables in Regs

Bound(r) == regs[r] # Unbound

\* `let d = <expression with outcome r>;`  (or `d op= ...`)
Step(name, d, r) ==
    /\ last' = [op |-> name, dst |-> d, wide |-> r.wide]
    /\ overflowed' = (overflowed \/ r.ovf)
    /\ panicked' = r.panic
    /\ regs' = IF r.panic THEN regs ELSE [regs EXCEPT ![d] = r.val]
    /\ UNCHANGED <<Q, overflow_checks, raw>>

From(d, x) ==
    /\ ~panicked
    /\ Step("from", d, from(<<x>>))

Zero(d) ==
    /\ ~panicked
    /\ Step("zero", d, Ok(zero))

One(d) ==
    /\ ~panicked
    /\ Step("one", d, Ok(one))

Add(d, i, j) ==
    /\ ~panicked /\ Bound(i) /\ Bound(j)
    /\ Step("add", d, add(regs[i], regs[j]))

Mul(d, i, j) ==
    /\ ~panicked /\ Bound(i) /\ Bound(j)
    /\ Step("mul", d, mul(regs[i], regs[j]))

Sub(d, i, j) ==
    /\ ~panicked /\ Bound(i) /\ Bound(j)
    /\ Step("sub", d, sub(regs[i], regs[j]))

Neg(d, i) ==
    /\ ~panicked /\ Bound(i)
    /\ Step("neg", d, neg(regs[i]))

\* op_assign!(add_assign, AddAssign, add):  *self = self.add(other)
AddAssign(i, j) ==
    /\ ~panicked /\ Bound(i) /\ Bound(j)
    /\ Step("add_assign", i, add(regs[i], regs[j]))

MulAssign(i, j) ==
    /\ ~panicked /\ Bound(i) /\ Bound(j)
    /\ Step("mul_assign", i, mul(regs[i], regs[j]))

SubAssign(i, j) ==
    /\ ~panicked /\ Bound(i) /\ Bound(j)
    /\ Step("sub_assign", i, sub(regs[i], regs[j]))

TwoSidedInverse(d, i) ==
    /\ ~panicked /\ Bound(i)
    /\ Step("two_sided_inverse", d, two_sided_inverse(regs[i]))

Init ==
    /\ Q \in U32
    /\ overflow_checks \in BOOLEAN
    /\ regs = [r \in Regs |-> Unbound]
    /\ last = [op |-> "init", dst |-> "a", wide |-> FALSE]
    /\ panicked = FALSE
    /\ overflowed = FALSE
    /\ raw = <<>>

Next ==
    \/ \E d \in Pair, x \in U32 : From(d, x)
    \/ \E d \in Pair : Zero(d)
    \/ \E d \in Pair : One(d)
    \/ \E d, i, j \in Pair : Add(d, i, j)
    \/ \E d, i, j \in Pair : Mul(d, i, j)
    \/ \E d, i, j \in Pair : Sub(d, i, j)
    \/ \E d, i \in Pair : Neg(d, i)
    \/ \E i, j \in Pair : AddAssign(i, j)
    \/ \E i, j \in Pair : MulAssign(i, j)
    \/ \E i, j \in Pair : SubAssign(i, j)
    \/ \E d, i \in Pair : TwoSidedInverse(d, i)

\* Any finite sequence of API calls on two variables, for any modulus.
Spec == Init /\ [][Next]_vars

---------------------------------------------------------------------------
\* The law program, after tests::test_add, test_sub_and_neg and test_mul:
\*   let a = Modular::<Q>::from([x]); let b = Modular::<Q>::from([y]);
\*   let a = a + b;   (or a - b, or a * b)
\* for a modulus Q >= 1 and raw integers x = raw[1], y = raw[2].

LawInit ==
    /\ Q \in 1..U32_MAX
    /\ overflow_checks \in BOOLEAN
    /\ regs = [r \in Regs |-> Unbound]
    /\ last = [op |-> "init", dst |-> "a", wide |-> FALSE]
    /\ panicked = FALSE
    /\ overflowed = FALSE
    /\ raw \in U32 \X U32

LawFromX == ~Bound("a") /\ From("a", raw[1])
LawFromY == Bound("a") /\ ~Bound("b") /\ From("b", raw[2])
LawAdd == last = [op |-> "from", dst |-> "b", wide |-> FALSE] /\ Add("a", "a", "b")
LawSub == last = [op |-> "from", dst |-> "b", wide |-> FALSE] /\ Sub("a", "a", "b")
LawMul == last = [op |-> "from", dst |-> "b", wide |-> FALSE] /\ Mul("a", "a", "b")

LawNext == LawFromX \/ LawFromY \/ LawAdd \/ LawSub \/ LawMul

LawSpec == LawInit /\ [][LawNext]_vars

---------------------------------------------------------------------------
\* The ring-law program: three variables are bound in turn by a constructor
\* each, then combined in place by + and *.

RingInit ==
    /\ Q \in 1..U32_MAX
    /\ overflow_checks \in BOOLEAN
    /\ regs = [r \in Regs |-> Unbound]
    /\ last = [op |-> "init", dst |-> "a", wide |-> FALSE]
    /\ panicked = FALSE
    /\ overflowed = FALSE
    /\ raw = <<>>

\* The next variable to bind: a, then b, then c.
Turn(d) == ~Bound(d) /\ \A r \in Regs : Bound(r) <=> r \in
               (CASE d = "a" -> {} [] d = "b" -> {"a"} [] OTHER -> {"a", "b"})

RingFrom(d, x) == Turn(d) /\ From(d, x)
RingZero(d) == Turn(d) /\ Zero(d)
RingOne(d) == Turn(d) /\ One(d)
RingAddAssign == (\A r \in Regs : Bound(r)) /\ AddAssign("a", "b")
RingMulAssign == (\A r \in Regs : Bound(r)) /\ MulAssign("a", "b")

RingNext ==
    \/ \E d \in Regs, x \in U32 : RingFrom(d, x)
    \/ \E d \in Regs : RingZero(d)
    \/ \E d \in Regs : RingOne(d)
    \/ RingAddAssign
    \/ RingMulAssign

RingSpec == RingInit /\ [][RingNext]_vars

---------------------------------------------------------------------------
\* Properties

AllBound == \A r \in Regs : Bound(r)

\* Expressions over outcomes: a panic in an operand is the panic of the whole
add_o(r, s) == IF r.panic THEN r ELSE IF s.panic THEN s ELSE add(r.val, s.val)
mul_o(r, s) == IF r.panic THEN r ELSE IF s.panic THEN s ELSE mul(r.val, s.val)
neg_o(r) == IF r.panic THEN r ELSE neg(r.val)
Yields(r, v) == ~r.panic /\ r.val = v
Same(r, s) == ~r.panic /\ ~s.panic /\ r.val = s.val

\* The non-negative residue of the integer t modulo m
Residue(t, m) == ((t % m) + m) % m

\* C1: for every Q >= 1, every value the API produces is stored reduced,
\* 0 <= v < Q.
C1_RepresentationInvariant ==
    Q >= 1 => \A r \in Regs : Bound(r) => regs[r][1] >= 0 /\ regs[r][1] < Q

\* C2: for every Q >= 2 and raw x, y: from([x]) + from([y]) is
\* from([(x + y) mod Q]) for the unbounded sum x + y, with no panic and no
\* wraparound, also when 2Q exceeds the narrow maximum.
C2_AddExact ==
    (last.op = "add" /\ Q >= 2) =>
        /\ ~panicked
        /\ ~overflowed
        /\ Yields(from(<<(raw[1] + raw[2]) % Q>>), regs[last.dst])

\* C2 witness: an addition was made on the widened path with operands whose
\* sum does not fit the narrow type.
C2_Witness ==
    /\ last.op = "add" /\ ~panicked /\ last.wide
    /\ (raw[1] % Q) + (raw[2] % Q) > U32_MAX
    /\ regs["a"] = Modular((raw[1] + raw[2]) % Q)

\* C3: for every Q >= 2 and raw x, y: from([x]) - from([y]) is
\* from([(x - y) mod Q]) with the non-negative residue, and is the negation
\* of from([y]) - from([x]), also when 2Q exceeds the narrow maximum.
C3_SubExact ==
    (last.op = "sub" /\ Q >= 2) =>
        /\ ~panicked
        /\ Yields(from(<<Residue(raw[1] - raw[2], Q)>>), regs[last.dst])
        /\ Yields(neg_o(sub(Modular(raw[2] % Q), Modular(raw[1] % Q))),
                  regs[last.dst])

\* C4: for every Q >= 2 and raw x, y: from([x]) * from([y]) is
\* from([(x * y) mod Q]) for the unbounded product, and no intermediate
\* product is truncated on either path.
C4_MulExact ==
    (last.op = "mul" /\ Q >= 2) =>
        /\ ~panicked
        /\ ~overflowed
        /\ Yields(from(<<(raw[1] * raw[2]) % Q>>), regs[last.dst])

\* C4 witness: a multiplication was made whose operands' product does not
\* fit the narrow type.
C4_Witness ==
    /\ last.op = "mul" /\ ~panicked /\ last.wide
    /\ (raw[1] % Q) * (raw[2] % Q) > U32_MAX
    /\ regs["a"] = Modular((raw[1] * raw[2]) % Q)

\* C5: for every Q >= 1 no operation panics and no narrow computation has
\* a true result outside 0..U32_MAX.
C5_Total == Q >= 1 => ~panicked /\ ~overflowed

\* C6: with Q = 0 no modular value is obtained: from fails, and neither
\* zero nor one returns a value.
C6_ZeroModulusRejected ==
    Q = 0 =>
        /\ last.op = "from" => panicked
        /\ \A r \in Regs : ~Bound(r)

\* C7: for every Q >= 1, zero() is the value 0 and is_zero holds exactly for
\* it; one() is the value 1 when Q > 1 and equals zero() when Q = 1, that
\* is one() == from([1]).
C7_Identities ==
    Q >= 1 =>
        /\ last.op = "zero" =>
               regs[last.dst] = Modular(0) /\ is_zero(regs[last.dst])
        /\ \A r \in Regs : Bound(r) => (is_zero(regs[r]) <=> regs[r] = zero)
        /\ last.op = "one" =>
               /\ Q > 1 => regs[last.dst] = Modular(1)
               /\ Q = 1 => regs[last.dst] = zero
               /\ Yields(from(<<1>>), regs[last.dst])

\* C8: for every Q >= 1 and every obtainable a: a + zero() == a,
\* zero() + a == a, a + (-a) == zero(), and for Q > 1, a * one() == a.
C8_IdentityInverseLaws ==
    Q >= 1 =>
        \A r \in Regs : Bound(r) =>
            LET a == regs[r]
            IN  /\ Yields(add(a, zero), a)
                /\ Yields(add(zero, a), a)
                /\ Yields(add_o(Ok(a), neg(a)), zero)
                /\ Q > 1 => Yields(mul(a, one), a)

\* C9: for every Q >= 1 and all obtainable a, b, c: + and * are associative
\* and commutative and * distributes over +.
C9_RingAxioms ==
    AllBound =>
        LET a == regs["a"]
            b == regs["b"]
            c == regs["c"]
        IN  /\ Same(add_o(add(a, b), Ok(c)), add_o(Ok(a), add(b, c)))
            /\ Same(mul_o(mul(a, b), Ok(c)), mul_o(Ok(a), mul(b, c)))
            /\ Same(add(a, b), add(b, a))
            /\ Same(mul(a, b), mul(b, a))
            /\ Same(mul_o(Ok(a), add(b, c)), add_o(mul(a, b), mul(a, c)))

\* C9 witness: three values are bound, a by a widened multiplication, and
\* b + c does not fit the narrow type.
C9_Witness ==
    /\ AllBound /\ ~panicked
    /\ last.op = "mul_assign" /\ last.wide
    /\ regs["a"][1] > 1
    /\ regs["b"][1] + regs["c"][1] > U32_MAX

\* C10 as stated: multiplication takes the widened path for every modulus.
C10_MulAlwaysWidens ==
    (Q >= 1 /\ last.op \in {"mul", "mul_assign"}) => last.wide

\* C10 as amended: multiplication takes the widened path exactly when Q * Q
\* exceeds the narrow maximum, addition exactly when Q + Q does; the path
\* depends on Q alone.
C10_WidthSelection ==
    /\ last.op \in {"mul", "mul_assign"} => (last.wide <=> Q * Q > U32_MAX)
    /\ last.op \in {"add", "add_assign"} => (last.wide <=> Q + Q > U32_MAX)

\* C10 witness: a multiplication of non-zero operands on the native path.
C10_Witness ==
    /\ last.op = "mul" /\ ~last.wide /\ ~panicked
    /\ Q >= 2
    /\ regs[last.dst][1] > 0

====
